---- MODULE Spec2Model ----
(***************************************************************************)
(* Model of the Box batch pipeline of iWorkConverter (src/main.go):        *)
(* main -> setupDirectories -> ProcessFolder (GetIWorkFiles, DownloadFile, *)
(* ConvertIWorkFile, SaveFileWithMetadata, os.Remove) -> GenerateReport.   *)
(* Strings are sequences of string tokens (single characters for names,    *)
(* whole literals for format strings); files are token sequences.          *)
(***************************************************************************)
EXTENDS Integers, Sequences, FiniteSets, TLC

VARIABLES pc, boxToken, envToken, token, format, entries, dirs,
          clock, summary, pfErr, iworkFiles, idx, processStart, localPath,
          outputPath, finalPath, scratch, outFiles, converted, reports, hist

vars == <<pc, boxToken, envToken, token, format, entries, dirs,
          clock, summary, pfErr, iworkFiles, idx, processStart, localPath,
          outputPath, finalPath, scratch, outFiles, converted, reports, hist>>

(* ------------------------------ bounds --------------------------------- *)
\* longest remote listing drawn in Init
MaxEntries == 2
\* largest wall-clock reading
MaxClock == 2

(* --------------------------- string helpers ---------------------------- *)
UpperChars == <<"A","B","C","D","E","F","G","H","I","J","K","L","M",
                "N","O","P","Q","R","S","T","U","V","W","X","Y","Z">>
LowerChars == <<"a","b","c","d","e","f","g","h","i","j","k","l","m",
                "n","o","p","q","r","s","t","u","v","w","x","y","z">>

\* strings.ToLower on one character
LowerChar(c) ==
    IF \E i \in 1..26 : UpperChars[i] = c
    THEN LowerChars[CHOOSE i \in 1..26 : UpperChars[i] = c]
    ELSE c

\* strings.ToLower
ToLower(s) == [i \in 1..Len(s) |-> LowerChar(s[i])]

\* filepath.Ext: the suffix beginning at the final dot of the final path
\* element, empty when there is no dot
Ext(name) ==
    LET dots == {i \in 1..Len(name) : name[i] = "."}
        seps == {i \in 1..Len(name) : name[i] = "/"}
        last(S) == CHOOSE i \in S : \A j \in S : j <= i
    IN  IF dots = {} THEN <<>>
        ELSE IF seps # {} /\ last(seps) > last(dots) THEN <<>>
        ELSE SubSeq(name, last(dots), Len(name))

\* strings.HasSuffix
HasSuffix(s, suf) ==
    /\ Len(suf) <= Len(s)
    /\ SubSeq(s, Len(s) - Len(suf) + 1, Len(s)) = suf

\* strings.TrimSuffix
TrimSuffix(s, suf) ==
    IF HasSuffix(s, suf) THEN SubSeq(s, 1, Len(s) - Len(suf)) ELSE s

\* strings.Repeat
RECURSIVE Repeat(_, _)
Repeat(c, n) == IF n <= 0 THEN <<>> ELSE <<c>> \o Repeat(c, n - 1)

DigitChars == <<"0","1","2","3","4","5","6","7","8","9">>

\* fmt %d of a non-negative integer
RECURSIVE Itoa(_)
Itoa(n) == IF n < 10 THEN <<DigitChars[n + 1]>>
           ELSE Itoa(n \div 10) \o <<DigitChars[(n % 10) + 1]>>

\* time.Time.Format(time.RFC3339) of the clock reading t
FormatRFC3339(t) == <<"T">> \o Itoa(t) \o <<"Z">>

\* filepath.Join(dir, file)
JoinPath(dir, file) == <<dir, "/">> \o file

(* --------------------------- configuration ----------------------------- *)
\* main's defaults for the output and scratch directories
DefaultOutputDir == "./extracted"
DefaultTempDir == "./temp"

\* time.Time{} zero value of ProcessingSummary.EndTime
ZeroTime == 0

\* the supportedExtensions map of GetIWorkFiles
supportedExtensions ==
    { <<".","p","a","g","e","s">>,
      <<".","n","u","m","b","e","r","s">>,
      <<".","k","e","y","n","o","t","e">>,
      <<".","k","e","y">>,
      <<".","n","m","b","r","s">> }

(* ------------------------- remote folder inputs ------------------------ *)
\* entries of a Box folder, in the order of their identifiers
FolderEntries ==
    << [ID |-> "11", Name |-> <<"a",".","p","a","g","e","s">>, Type |-> "file",
        Size |-> 1024, ModifiedAt |-> 1],
       [ID |-> "12", Name |-> <<"i",".","p","n","g">>, Type |-> "file",
        Size |-> 10, ModifiedAt |-> 1],
       [ID |-> "13", Name |-> <<"b",".","n","u","m","b","e","r","s">>, Type |-> "file",
        Size |-> 2048, ModifiedAt |-> 1],
       [ID |-> "14", Name |-> <<"d",".","p","a","g","e","s">>, Type |-> "folder",
        Size |-> 0, ModifiedAt |-> 1],
       [ID |-> "15", Name |-> <<"a",".","K","E","Y">>, Type |-> "file",
        Size |-> 7, ModifiedAt |-> 0] >>

\* the entries at the positions ps of FolderEntries, ascending or descending
RECURSIVE Ascending(_)
Ascending(ps) ==
    IF ps = {} THEN <<>>
    ELSE LET m == CHOOSE p \in ps : \A q \in ps : q <= p
         IN  Append(Ascending(ps \ {m}), FolderEntries[m])
Descending(ps) ==
    LET a == Ascending(ps) IN [i \in 1..Len(a) |-> a[Len(a) + 1 - i]]

\* listings the entries response may hold: at most MaxEntries entries of the
\* folder, in ascending or in descending order
Listings ==
    LET sels == {ps \in SUBSET (1..Len(FolderEntries)) : Cardinality(ps) <= MaxEntries}
    IN  {Ascending(ps) : ps \in sels} \cup {Descending(ps) : ps \in sels}

\* plain text or markup the delegated converter may produce
Contents == { <<"H","i">>, <<"x","\n","y","\n">> }

\* -format values given on the command line
Formats == {"txt", "html", "pdf"}

(* ---------------------------- pure helpers ----------------------------- *)
\* variant of IsIWorkEntry: the extension is compared as it is spelled
IsIWorkEntry_CaseSensitive(e) ==
    /\ e.Type = "file"
    /\ Ext(e.Name) \in supportedExtensions

\* the filter of GetIWorkFiles: a file whose lowercase extension is supported
IsIWorkEntry(e) ==
    /\ e.Type = "file"
    /\ ToLower(Ext(e.Name)) \in supportedExtensions

\* the FileInfo appended for a selected entry
ToFileInfo(e) ==
    [ID |-> e.ID, Name |-> e.Name, Size |-> e.Size,
     Extension |-> ToLower(Ext(e.Name)), ModifiedAt |-> e.ModifiedAt]

\* the iworkFiles slice built by the loop over result.Entries: each selected
\* entry is appended in turn
RECURSIVE FilterEntries(_)
FilterEntries(es) ==
    IF es = <<>> THEN <<>>
    ELSE LET rest == FilterEntries(SubSeq(es, 1, Len(es) - 1))
             entry == es[Len(es)]
         IN  IF IsIWorkEntry(entry) THEN Append(rest, ToFileInfo(entry)) ELSE rest

\* summary := &ProcessingSummary{StartTime: now, Errors: [], ProcessedFiles: []}
NewSummary(now) ==
    [TotalFiles |-> 0, Successful |-> 0, Failed |-> 0, Errors |-> <<>>,
     ProcessedFiles |-> <<>>, StartTime |-> now, EndTime |-> ZeroTime,
     Duration |-> 0]

\* variant of RecordFailure: the message is appended, the count is not touched
RecordFailure_NoIncrement(s, msg) ==
    [s EXCEPT !.Errors = Append(@, msg)]

\* variant of RecordFailure: one failure is counted twice
RecordFailure_CountsTwice(s, msg) ==
    [s EXCEPT !.Failed = @ + 2, !.Errors = Append(@, msg)]

\* summary.Failed++ ; summary.Errors = append(summary.Errors, msg)
RecordFailure(s, msg) ==
    [s EXCEPT !.Failed = @ + 1, !.Errors = Append(@, msg)]

\* variant of RecordSuccess: the record is put in front of the list
RecordSuccess_Prepend(s, pf) ==
    [s EXCEPT !.Successful = @ + 1, !.ProcessedFiles = <<pf>> \o @]

\* variant of RecordSuccess: the count is incremented, the record is dropped
RecordSuccess_NoAppend(s, pf) ==
    [s EXCEPT !.Successful = @ + 1]

\* summary.Successful++ ; summary.ProcessedFiles = append(..., pf)
RecordSuccess(s, pf) ==
    [s EXCEPT !.Successful = @ + 1, !.ProcessedFiles = Append(@, pf)]

\* fmt.Sprintf("Failed to <what> %s: %v", name, err)
FailureMessage(what, name, err) == <<what>> \o name \o <<": ">> \o err

\* variant of OutputPathFor: the source extension stays in the file name
OutputPathFor_KeepsExt(fmt, name) ==
    IF fmt = "txt"
    THEN JoinPath(DefaultOutputDir, name \o <<"_extracted.txt">>)
    ELSE JoinPath(DefaultOutputDir, name \o <<"_converted.html">>)

\* the output path derived from the base name and the format
OutputPathFor(fmt, name) ==
    LET baseName == TrimSuffix(name, Ext(name))
    IN  IF fmt = "txt"
        THEN JoinPath(DefaultOutputDir, baseName \o <<"_extracted.txt">>)
        ELSE JoinPath(DefaultOutputDir, baseName \o <<"_converted.html">>)

\* variant of MetadataBuffer: the size line is written before the identifier
MetadataBuffer_SizeFirst(content, m, now) ==
    <<"# Extracted from: ">> \o m.Name \o <<"\n">>
    \o <<"# Size: ">> \o Itoa(m.Size) \o <<" bytes", "\n">>
    \o <<"# File ID: ", m.ID, "\n">>
    \o <<"# Modified: ">> \o FormatRFC3339(m.ModifiedAt) \o <<"\n">>
    \o <<"# Extracted: ">> \o FormatRFC3339(now) \o <<"\n">>
    \o <<"# Extension: ">> \o m.Extension \o <<"\n">>
    \o <<"\n">>
    \o Repeat("-", 50)
    \o <<"\n", "\n">>
    \o content

\* the buffer SaveFileWithMetadata builds around the converted content
MetadataBuffer(content, m, now) ==
    <<"# Extracted from: ">> \o m.Name \o <<"\n">>
    \o <<"# File ID: ", m.ID, "\n">>
    \o <<"# Size: ">> \o Itoa(m.Size) \o <<" bytes", "\n">>
    \o <<"# Modified: ">> \o FormatRFC3339(m.ModifiedAt) \o <<"\n">>
    \o <<"# Extracted: ">> \o FormatRFC3339(now) \o <<"\n">>
    \o <<"# Extension: ">> \o m.Extension \o <<"\n">>
    \o <<"\n">>
    \o Repeat("-", 50)
    \o <<"\n", "\n">>
    \o content

\* time.Duration.String() of a number of clock units
DurationString(d) == Itoa(d) \o <<"s">>

\* readings time.Now() may return next: the clock never runs backwards
NowReadings == { t \in clock..(clock + 1) : t <= MaxClock }

\* the loop's next position after candidate i: next candidate or end of loop
LoopNext(i) == IF i < Len(iworkFiles) THEN "download" ELSE "finalize"

\* outcomes of GetIWorkFiles: success, a transport error, a non-OK status
\* (401 when the server rejects the credential), an undecodable body
ListingOutcomes == {"ok", "request", "401 Unauthorized", "404 Not Found", "decode"}

\* variant of ListingError: the status of the response is not reported
ListingError_NoStatus(o) ==
    CASE o = "request" -> <<"failed to make request: ", "transport">>
      [] o = "decode"  -> <<"failed to decode response: ", "json">>
      [] OTHER         -> <<"Box API error">>

\* the error value GetIWorkFiles returns for a failed outcome
ListingError(o) ==
    CASE o = "request" -> <<"failed to make request: ", "transport">>
      [] o = "decode"  -> <<"failed to decode response: ", "json">>
      [] OTHER         -> <<"Box API error: ", o>>

\* outcomes of DownloadFile: success or one of its four failure points
DownloadOutcomes == {"ok", "request", "401 Unauthorized", "create", "copy"}

\* the error value DownloadFile returns for a failed outcome
DownloadError(o) ==
    CASE o = "request" -> <<"failed to download file: ", "transport">>
      [] o = "create"  -> <<"failed to create temp file: ", "io">>
      [] o = "copy"    -> <<"failed to write file: ", "io">>
      [] OTHER         -> <<"download failed with status: ", o>>

\* what tells two error values apart besides their text: the fmt.Errorf call
\* that built them (the errors have no type or code of their own)
ErrorKind(err) == err[1]

\* whether os.Create(tempPath) has run and succeeded for the outcome
DownloadCreatesFile(o) == o \in {"ok", "copy"}

(* ------------------------------- Init ---------------------------------- *)
Init ==
    /\ pc = "main"
    /\ boxToken \in {"", "tok"}
    /\ envToken \in {"", "env"}
    /\ (boxToken = "" \/ envToken = "")
    /\ token = ""
    /\ format \in Formats
    /\ entries \in Listings
    /\ dirs = {}
    /\ clock = 1
    /\ summary = NewSummary(ZeroTime)
    /\ pfErr = <<"unset">>
    /\ iworkFiles = <<>>
    /\ idx = 0
    /\ processStart = ZeroTime
    /\ localPath = <<>>
    /\ outputPath = <<>>
    /\ finalPath = <<>>
    /\ scratch = {}
    /\ outFiles = <<>>
    /\ converted = <<>>
    /\ reports = <<>>
    /\ hist = <<>>

(* ------------------------------ main ----------------------------------- *)
\* variant of MainToken: the empty token is not rejected
MainToken_NoCheck ==
    /\ pc = "main"
    /\ token' = IF boxToken # "" THEN boxToken ELSE envToken
    /\ pc' = "format"
    /\ UNCHANGED <<boxToken, envToken, format, entries, dirs,
                   clock, summary, pfErr, iworkFiles, idx, processStart,
                   localPath, outputPath, finalPath, scratch, outFiles,
                   converted, reports, hist>>

\* main: token from -token or BOX_ACCESS_TOKEN; empty token prints usage
MainToken ==
    /\ pc = "main"
    /\ token' = IF boxToken # "" THEN boxToken ELSE envToken
    /\ pc' = IF token' = "" THEN "usage" ELSE "format"
    /\ UNCHANGED <<boxToken, envToken, format, entries, dirs,
                   clock, summary, pfErr, iworkFiles, idx, processStart,
                   localPath, outputPath, finalPath, scratch, outFiles,
                   converted, reports, hist>>

\* main: validate -format
MainFormat ==
    /\ pc = "format"
    /\ pc' = IF format # "txt" /\ format # "html" THEN "badformat" ELSE "setup"
    /\ UNCHANGED <<boxToken, envToken, token, format, entries,
                   dirs, clock, summary, pfErr, iworkFiles, idx, processStart,
                   localPath, outputPath, finalPath, scratch, outFiles,
                   converted, reports, hist>>

\* setupDirectories: MkdirAll(tempDir) then MkdirAll(outputDir); log.Fatalf
\* on the first failure
SetupDirectories ==
    /\ pc = "setup"
    /\ \E r \in {"ok", "temp", "output"} :
          /\ dirs' = CASE r = "temp"   -> dirs
                       [] r = "output" -> dirs \cup {DefaultTempDir}
                       [] OTHER        -> dirs \cup {DefaultTempDir, DefaultOutputDir}
          /\ pc' = IF r = "ok" THEN "start" ELSE "fatal"
    /\ UNCHANGED <<boxToken, envToken, token, format, entries,
                   clock, summary, pfErr, iworkFiles, idx, processStart,
                   localPath, outputPath, finalPath, scratch, outFiles,
                   converted, reports, hist>>

(* --------------------------- ProcessFolder ----------------------------- *)
\* readings time.Now() may return after a reading of t
NowAfter(t) == { u \in t..(t + 1) : u <= MaxClock }

\* the candidate of the current loop iteration
fileInfo == iworkFiles[idx]

\* ProcessFolder entry: the summary is created with StartTime = time.Now()
ProcessFolderStart ==
    /\ pc = "start"
    /\ \E now \in NowReadings :
          /\ clock' = now
          /\ summary' = NewSummary(now)
    /\ pc' = "list"
    /\ UNCHANGED <<boxToken, envToken, token, format, entries,
                   dirs, pfErr, iworkFiles, idx, processStart, localPath,
                   outputPath, finalPath, scratch, outFiles, converted,
                   reports, hist>>

\* variant of ListingFailed: main logs the error and goes on to the report
ListingFailed_Continue(o) ==
    /\ pfErr' = <<"failed to get iWork files: ">> \o ListingError(o)
    /\ pc' = "report"
    /\ UNCHANGED <<summary, iworkFiles, idx>>

\* a failed listing: ProcessFolder returns the error and main calls log.Fatalf
ListingFailed(o) ==
    /\ pfErr' = <<"failed to get iWork files: ">> \o ListingError(o)
    /\ pc' = "fatal"
    /\ UNCHANGED <<summary, iworkFiles, idx>>

\* a successful listing: TotalFiles is set; an empty list returns at once
ListingSucceeded ==
    /\ iworkFiles' = FilterEntries(entries)
    /\ summary' = [summary EXCEPT !.TotalFiles = Len(iworkFiles')]
    /\ IF Len(iworkFiles') = 0
       THEN /\ pfErr' = <<"nil">>
            /\ pc' = "report"
            /\ idx' = idx
       ELSE /\ pfErr' = pfErr
            /\ pc' = "download"
            /\ idx' = 1

\* ProcessFolder: iworkFiles, err := p.boxClient.GetIWorkFiles()
GetIWorkFiles ==
    /\ pc = "list"
    /\ \E o \in ListingOutcomes :
          /\ IF o = "ok" THEN ListingSucceeded ELSE ListingFailed(o)
          /\ hist' = Append(hist, <<"list", 0, o>>)
    /\ UNCHANGED <<boxToken, envToken, token, format, entries,
                   dirs, clock, processStart, localPath, outputPath,
                   finalPath, scratch, outFiles, converted, reports>>

\* the scratch directory after DownloadFile ended with outcome o
ScratchAfterDownload(o, path) ==
    IF DownloadCreatesFile(o) THEN scratch \cup {path} ELSE scratch

\* variant of DownloadFailed: the continue is missing
DownloadFailed_FallsThrough(o) ==
    /\ summary' = RecordFailure(summary,
                     FailureMessage("Failed to download ", fileInfo.Name,
                                    DownloadError(o)))
    /\ localPath' = <<>>
    /\ idx' = idx
    /\ pc' = "convert"

\* variant of DownloadFailed: the failure is counted but no message is kept
DownloadFailed_NoMessage(o) ==
    /\ summary' = [summary EXCEPT !.Failed = @ + 1]
    /\ localPath' = <<>>
    /\ idx' = idx + 1
    /\ pc' = LoopNext(idx)

\* variant of DownloadFailed: the same candidate is tried again
DownloadFailed_Retry(o) ==
    /\ summary' = RecordFailure(summary,
                     FailureMessage("Failed to download ", fileInfo.Name,
                                    DownloadError(o)))
    /\ localPath' = <<>>
    /\ idx' = idx
    /\ pc' = "download"

\* variant of DownloadFailed: the failure ends the run
DownloadFailed_Abort(o) ==
    /\ summary' = RecordFailure(summary,
                     FailureMessage("Failed to download ", fileInfo.Name,
                                    DownloadError(o)))
    /\ localPath' = <<>>
    /\ idx' = idx
    /\ pc' = "fatal"

\* the download failed: count it, record the message, continue
DownloadFailed(o) ==
    /\ summary' = RecordFailure(summary,
                     FailureMessage("Failed to download ", fileInfo.Name,
                                    DownloadError(o)))
    /\ localPath' = <<>>
    /\ idx' = idx + 1
    /\ pc' = LoopNext(idx)

\* variant of DownloadSucceeded: the next download starts before the
\* conversion of this one
DownloadSucceeded_StartsNext(path) ==
    /\ localPath' = path
    /\ idx' = idx + 1
    /\ pc' = LoopNext(idx)
    /\ UNCHANGED summary

\* the download succeeded: go on to the conversion of the scratch file
DownloadSucceeded(path) ==
    /\ localPath' = path
    /\ pc' = "convert"
    /\ UNCHANGED <<summary, idx>>

\* loop body, first part: processStart := time.Now(); DownloadFile(...)
DownloadFile ==
    /\ pc = "download"
    /\ \E now \in NowReadings, o \in DownloadOutcomes :
          LET tempPath == JoinPath(DefaultTempDir, fileInfo.Name) IN
          /\ clock' = now
          /\ processStart' = now
          /\ scratch' = ScratchAfterDownload(o, tempPath)
          /\ IF o = "ok" THEN DownloadSucceeded(tempPath) ELSE DownloadFailed(o)
          /\ hist' = Append(hist, <<"download", idx, o>>)
    /\ UNCHANGED <<boxToken, envToken, token, format, entries,
                   dirs, pfErr, iworkFiles, outputPath, finalPath, outFiles,
                   converted, reports>>

\* variant of ConvertFailed: the scratch file is not removed
ConvertFailed_NoRemove ==
    /\ summary' = RecordFailure(summary,
                     FailureMessage("Failed to convert ", fileInfo.Name,
                                    <<"conversion error">>))
    /\ idx' = idx + 1
    /\ pc' = LoopNext(idx)
    /\ UNCHANGED <<converted, outFiles, scratch>>

\* the conversion failed: count it, record the message, remove the scratch
\* file, continue
ConvertFailed ==
    /\ summary' = RecordFailure(summary,
                     FailureMessage("Failed to convert ", fileInfo.Name,
                                    <<"conversion error">>))
    /\ scratch' = scratch \ {localPath}
    /\ idx' = idx + 1
    /\ pc' = LoopNext(idx)
    /\ UNCHANGED <<converted, outFiles>>

\* the delegated converter wrote content c to the output path
ConvertSucceeded(c, out) ==
    /\ outFiles' = (out :> c) @@ outFiles
    /\ converted' = c
    /\ pc' = "enrich"
    /\ UNCHANGED <<summary, scratch, idx>>

\* loop body, second part: output path, then ConvertIWorkFile(localPath, out)
ConvertIWorkFile ==
    /\ pc = "convert"
    /\ outputPath' = OutputPathFor(format, fileInfo.Name)
    /\ \/ \E c \in Contents :
             /\ ConvertSucceeded(c, outputPath')
             /\ hist' = Append(hist, <<"convert", idx, "ok">>)
       \/ /\ ConvertFailed
          /\ hist' = Append(hist, <<"convert", idx, "fail">>)
    /\ UNCHANGED <<boxToken, envToken, token, format, entries,
                   dirs, clock, pfErr, iworkFiles, processStart, localPath,
                   finalPath, reports>>

\* variant of EnrichFailed: the else is missing, the success is recorded too
EnrichFailed_AlsoRecorded(cause) ==
    /\ finalPath' = <<>>
    /\ summary' = RecordSuccess(
                     RecordFailure(summary,
                        FailureMessage("Failed to save enhanced file for ",
                                       fileInfo.Name, cause)),
                     [OriginalFile |-> fileInfo.Name,
                      OutputPath |-> <<>>,
                      FileSize |-> fileInfo.Size,
                      ProcessTime |-> DurationString(0)])
    /\ hist' = Append(hist, <<"enrich", idx, "fail">>)

\* enrichment returned an error: count it and record the message
EnrichFailed(cause) ==
    /\ finalPath' = <<>>
    /\ summary' = RecordFailure(summary,
                     FailureMessage("Failed to save enhanced file for ",
                                    fileInfo.Name, cause))
    /\ hist' = Append(hist, <<"enrich", idx, "fail">>)

\* enrichment returned the path: count the success and append the record
EnrichSucceeded(now) ==
    /\ finalPath' = outputPath
    /\ summary' = RecordSuccess(summary,
                     [OriginalFile |-> fileInfo.Name,
                      OutputPath |-> outputPath,
                      FileSize |-> fileInfo.Size,
                      ProcessTime |-> DurationString(now - processStart)])
    /\ hist' = Append(hist, <<"enrich", idx, "ok">>)

\* variant of SaveMarkup: the header is prepended whatever the format
SaveMarkup_AddsHeader ==
    /\ format # "txt"
    /\ \E now \in NowReadings :
          /\ clock' = now
          /\ outFiles' = (outputPath :>
                            MetadataBuffer(outFiles[outputPath], fileInfo, now))
                         @@ outFiles
          /\ EnrichSucceeded(now)

\* SaveFileWithMetadata for a format other than txt: the path as it is
SaveMarkup ==
    /\ format # "txt"
    /\ \E now \in NowReadings :
          /\ clock' = now
          /\ EnrichSucceeded(now)
    /\ UNCHANGED outFiles

\* SaveFileWithMetadata for txt: read, prepend the header, write back
SaveText ==
    /\ format = "txt"
    /\ \/ /\ EnrichFailed(<<"failed to read converted file: ", "io">>)
          /\ UNCHANGED <<outFiles, clock>>
       \/ \E truncated \in BOOLEAN :
             /\ outFiles' = IF truncated
                            THEN (outputPath :> <<>>) @@ outFiles
                            ELSE outFiles
             /\ EnrichFailed(<<"failed to write enhanced file: ", "io">>)
             /\ UNCHANGED clock
       \/ \E now \in NowReadings :
             /\ outFiles' = (outputPath :>
                               MetadataBuffer(outFiles[outputPath], fileInfo, now))
                            @@ outFiles
             /\ \E since \in NowAfter(now) :
                   /\ clock' = since
                   /\ EnrichSucceeded(since)

\* loop body, third part: SaveFileWithMetadata and the success/failure record
SaveFileWithMetadata ==
    /\ pc = "enrich"
    /\ (SaveMarkup \/ SaveText)
    /\ pc' = "cleanup"
    /\ UNCHANGED <<boxToken, envToken, token, format, entries,
                   dirs, pfErr, iworkFiles, idx, processStart, localPath,
                   outputPath, scratch, converted, reports>>

\* variant of Cleanup: the scratch file is removed only after a success
Cleanup_OnlyOnSuccess ==
    /\ pc = "cleanup"
    /\ scratch' = IF finalPath = <<>> THEN scratch ELSE scratch \ {localPath}
    /\ idx' = idx + 1
    /\ pc' = LoopNext(idx)
    /\ hist' = Append(hist, <<"cleanup", idx, "ok">>)
    /\ UNCHANGED <<boxToken, envToken, token, format, entries,
                   dirs, clock, summary, pfErr, iworkFiles, processStart,
                   localPath, outputPath, finalPath, outFiles, converted,
                   reports>>

\* loop body, last statement: os.Remove(localPath), then the next candidate
Cleanup ==
    /\ pc = "cleanup"
    /\ scratch' = scratch \ {localPath}
    /\ idx' = idx + 1
    /\ pc' = LoopNext(idx)
    /\ hist' = Append(hist, <<"cleanup", idx, "ok">>)
    /\ UNCHANGED <<boxToken, envToken, token, format, entries,
                   dirs, clock, summary, pfErr, iworkFiles, processStart,
                   localPath, outputPath, finalPath, outFiles, converted,
                   reports>>

\* the summary as finalized after the loop
FinalizedSummary(s, now) ==
    [s EXCEPT !.EndTime = now, !.Duration = now - s.StartTime]

\* after the loop: EndTime, Duration, return summary, nil
Finalize ==
    /\ pc = "finalize"
    /\ \E now \in NowReadings :
          /\ clock' = now
          /\ summary' = FinalizedSummary(summary, now)
    /\ pfErr' = <<"nil">>
    /\ pc' = "report"
    /\ UNCHANGED <<boxToken, envToken, token, format, entries,
                   dirs, iworkFiles, idx, processStart, localPath, outputPath,
                   finalPath, scratch, outFiles, converted, reports, hist>>

\* variant of GenerateReport: the end time is stamped when the report is made
GenerateReport_StampsSummary ==
    /\ pc = "report"
    /\ \E now \in NowReadings, written \in BOOLEAN :
          LET reportPath == JoinPath(DefaultOutputDir,
                               <<"processing_report_">> \o Itoa(now) \o <<".json">>)
          IN  /\ clock' = now
              /\ summary' = [summary EXCEPT !.EndTime = now + 1]
              /\ reports' = IF written
                            THEN Append(reports, [Path |-> reportPath, Data |-> summary'])
                            ELSE reports
    /\ pc' = "done"
    /\ UNCHANGED <<boxToken, envToken, token, format, entries,
                   dirs, pfErr, iworkFiles, idx, processStart,
                   localPath, outputPath, finalPath, scratch, outFiles,
                   converted, hist>>

\* main: GenerateReport(summary); a write failure is only logged
GenerateReport ==
    /\ pc = "report"
    /\ \E now \in NowReadings, written \in BOOLEAN :
          LET reportPath == JoinPath(DefaultOutputDir,
                               <<"processing_report_">> \o Itoa(now) \o <<".json">>)
          IN  /\ clock' = now
              /\ reports' = IF written
                            THEN Append(reports, [Path |-> reportPath, Data |-> summary])
                            ELSE reports
    /\ pc' = "done"
    /\ UNCHANGED <<boxToken, envToken, token, format, entries,
                   dirs, summary, pfErr, iworkFiles, idx, processStart,
                   localPath, outputPath, finalPath, scratch, outFiles,
                   converted, hist>>

(* --------------------------- specification ----------------------------- *)
Next ==
    \/ MainToken
    \/ MainFormat
    \/ SetupDirectories
    \/ ProcessFolderStart
    \/ GetIWorkFiles
    \/ DownloadFile
    \/ ConvertIWorkFile
    \/ SaveFileWithMetadata
    \/ Cleanup
    \/ Finalize
    \/ GenerateReport

Spec == Init /\ [][Next]_vars

\* the program runs to completion: every call returns and the next step is taken
FairSpec == Spec /\ WF_vars(Next)

TypeOK ==
    /\ pc \in {"main", "usage", "format", "badformat", "setup", "fatal", "start",
               "list", "download", "convert", "enrich", "cleanup", "finalize",
               "report", "done"}
    /\ idx \in 0..(Len(iworkFiles) + 1)
    /\ clock \in 1..MaxClock

(* ------------------------- properties: helpers ------------------------- *)
\* strings.HasPrefix
HasPrefix(s, pre) == Len(pre) <= Len(s) /\ SubSeq(s, 1, Len(pre)) = pre

\* the three message openings ProcessFolder uses
FailurePrefixes ==
    {"Failed to download ", "Failed to convert ", "Failed to save enhanced file for "}

\* the failure message msg is about the file called name
ErrorNames(msg, name) ==
    \E what \in FailurePrefixes : HasPrefix(msg, <<what>> \o name \o <<": ">>)

\* ProcessFolder has returned summary, nil
Finalized == pfErr = <<"nil">>

\* main has returned or exited
RunEnded == pc \in {"usage", "badformat", "fatal", "done"}

\* number of records / failure messages of the summary about candidate i
RecordsOf(i) ==
    Cardinality({k \in 1..Len(summary.ProcessedFiles) :
                    summary.ProcessedFiles[k].OriginalFile = iworkFiles[i].Name})
MessagesOf(i) ==
    Cardinality({k \in 1..Len(summary.Errors) :
                    ErrorNames(summary.Errors[k], iworkFiles[i].Name)})

\* the download of candidate i was invoked
Attempted(i) == \E k \in 1..Len(hist) : hist[k][1] = "download" /\ hist[k][2] = i

\* the event with which candidate i reaches success or failure
IsTerminalEvent(e, i) ==
    /\ e[2] = i
    /\ \/ e[1] = "download" /\ e[3] # "ok"
       \/ e[1] = "convert" /\ e[3] = "fail"
       \/ e[1] = "enrich"

(* ------------------------------ claims --------------------------------- *)
\* C1: whenever ProcessFolder has returned without error, the summary has
\* Successful + Failed = TotalFiles.
C1_CountsAddUp ==
    Finalized => summary.Successful + summary.Failed = summary.TotalFiles

C1_Witness ==
    /\ Finalized
    /\ summary.Successful >= 1
    /\ summary.Failed >= 1

\* C2: the number of entries of ProcessedFiles equals Successful and the
\* number of entries of Errors equals Failed.
C2_ListLengthsMatchCounts ==
    /\ Len(summary.ProcessedFiles) = summary.Successful
    /\ Len(summary.Errors) = summary.Failed

C2_Witness ==
    /\ pc = "done"
    /\ Len(summary.ProcessedFiles) >= 1
    /\ Len(summary.Errors) >= 1

\* C3: in the finalized summary every candidate of the listing has exactly one
\* ProcessedFile record or exactly one failure message, never both or neither,
\* and the summary holds nothing else.
C3_ExactlyOneOutcome ==
    Finalized =>
       /\ \A i \in 1..Len(iworkFiles) : RecordsOf(i) + MessagesOf(i) = 1
       /\ Len(summary.ProcessedFiles) + Len(summary.Errors) = Len(iworkFiles)

C3_Witness ==
    /\ Finalized
    /\ Len(iworkFiles) = 2
    /\ RecordsOf(1) = 1 /\ MessagesOf(1) = 0
    /\ RecordsOf(2) = 0 /\ MessagesOf(2) = 1

\* C4: once the loop of ProcessFolder is over, no scratch file exists in the
\* temp directory, whatever the outcomes of download, conversion, enrichment.
C4_NoScratchAfterRun ==
    pc \in {"report", "done"} => scratch = {}

\* C5: once the listing has succeeded with candidates, the run goes on to the
\* end: ProcessFolder returns nil and every candidate's download was invoked.
C5_RunNeverAborts ==
    (pc = "download" /\ idx = 1)
       ~> (Finalized /\ \A i \in 1..Len(iworkFiles) : Attempted(i))

C5_Witness ==
    /\ Finalized
    /\ Len(iworkFiles) = 2
    /\ summary.Failed = 2
    /\ Attempted(1) /\ Attempted(2)

\* directory creation failed / the listing failed
SetupFailed ==
    /\ pc \notin {"main", "usage", "format", "badformat", "setup"}
    /\ dirs # {DefaultTempDir, DefaultOutputDir}
ListingHasFailed == pfErr \notin {<<"unset">>, <<"nil">>}

\* C6: when directory creation or the listing fails the run is over at once:
\* nothing is downloaded or converted and no report is written.
C6_SetupFailureIsFatal ==
    (SetupFailed \/ ListingHasFailed) =>
       /\ pc = "fatal"
       /\ \A k \in 1..Len(hist) : hist[k][1] \notin {"download", "convert", "enrich"}
       /\ scratch = {}
       /\ DOMAIN outFiles = {}
       /\ reports = <<>>

C6_Witness ==
    /\ ListingHasFailed
    /\ pc = "fatal"
    /\ \E i \in 1..Len(entries) : IsIWorkEntry(entries[i])

\* the credential is empty: no -token flag and no BOX_ACCESS_TOKEN
NoCredential == boxToken = "" /\ envToken = ""

\* C7 as stated: with no credential the run ends after a listing call that
\* failed as unauthorized.
C7_ListingCalledWithoutCredential ==
    (NoCredential /\ RunEnded) =>
       /\ \E k \in 1..Len(hist) : hist[k] = <<"list", 0, "401 Unauthorized">>
       /\ reports = <<>>

\* C7 amended: with no credential main returns after the usage text: no
\* directory is created, no listing call is made, no candidate is processed
\* and no report is written.
C7_NoCredentialStopsBeforeListing ==
    (NoCredential /\ pc # "main") =>
       /\ pc = "usage"
       /\ dirs = {}
       /\ hist = <<>>
       /\ scratch = {}
       /\ reports = <<>>

C7_Witness == NoCredential /\ pc = "usage"

\* positions of the newlines of a file, and its n-th line and what follows it
NewlinesOf(f) == {i \in 1..Len(f) : f[i] = "\n"}
NthNewline(f, n) ==
    IF n = 0 THEN 0
    ELSE CHOOSE i \in NewlinesOf(f) :
            Cardinality({j \in NewlinesOf(f) : j <= i}) = n
LineOf(f, n) == SubSeq(f, NthNewline(f, n - 1) + 1, NthNewline(f, n) - 1)
AfterLine(f, n) == SubSeq(f, NthNewline(f, n) + 1, Len(f))

\* a line of exactly 50 dashes
IsSeparator(l) == Len(l) = 50 /\ \A i \in 1..Len(l) : l[i] = "-"

\* the six header lines in the order name, id, size, modified, extracted, ext
HasSixHeaderLines(f, m) ==
    /\ Cardinality(NewlinesOf(f)) >= 6
    /\ LineOf(f, 1) = <<"# Extracted from: ">> \o m.Name
    /\ LineOf(f, 2) = <<"# File ID: ", m.ID>>
    /\ LineOf(f, 3) = <<"# Size: ">> \o Itoa(m.Size) \o <<" bytes">>
    /\ LineOf(f, 4) = <<"# Modified: ">> \o FormatRFC3339(m.ModifiedAt)
    /\ \E t \in 1..clock : LineOf(f, 5) = <<"# Extracted: ">> \o FormatRFC3339(t)
    /\ LineOf(f, 6) = <<"# Extension: ">> \o ToLower(Ext(m.Name))

\* a candidate has just been enriched successfully in text mode
TextEnriched == pc = "cleanup" /\ format = "txt" /\ finalPath = outputPath

\* C8 as stated: the separator line comes right after the sixth header line.
C8_SeparatorRightAfterHeader ==
    TextEnriched =>
       LET f == outFiles[outputPath] IN
       /\ HasSixHeaderLines(f, fileInfo)
       /\ Cardinality(NewlinesOf(f)) >= 8
       /\ IsSeparator(LineOf(f, 7))
       /\ LineOf(f, 8) = <<>>
       /\ AfterLine(f, 8) = converted

\* C8 amended: six header lines in the stated order, one blank line, the
\* 50-character separator line, one blank line, then the converter's content
\* unchanged.
C8_HeaderBlankSeparatorBlankContent ==
    TextEnriched =>
       LET f == outFiles[outputPath] IN
       /\ HasSixHeaderLines(f, fileInfo)
       /\ Cardinality(NewlinesOf(f)) >= 9
       /\ LineOf(f, 7) = <<>>
       /\ IsSeparator(LineOf(f, 8))
       /\ LineOf(f, 9) = <<>>
       /\ AfterLine(f, 9) = converted

C8_Witness ==
    /\ TextEnriched
    /\ converted = <<"x", "\n", "y", "\n">>
    /\ Len(outFiles[outputPath]) > Len(converted)

\* C9: in HTML mode the enrichment step leaves every output file as the
\* converter wrote it, returns the converted path and records a success.
C9_MarkupEnrichmentIsNoOp ==
    [][(pc = "enrich" /\ format = "html") =>
          /\ outFiles' = outFiles
          /\ outFiles'[outputPath] = converted
          /\ finalPath' = outputPath
          /\ summary'.Failed = summary.Failed
          /\ summary'.Successful = summary.Successful + 1]_vars

C9_Witness ==
    /\ pc = "cleanup"
    /\ format = "html"
    /\ finalPath = outputPath
    /\ outFiles[outputPath] = converted

\* index of the candidate a record / a failure message is about
CandidateOfRecord(pf) ==
    CHOOSE i \in 1..Len(iworkFiles) : iworkFiles[i].Name = pf.OriginalFile
CandidateOfMessage(msg) ==
    CHOOSE i \in 1..Len(iworkFiles) : ErrorNames(msg, iworkFiles[i].Name)

\* C10: the records and the failure messages each follow the order of the
\* candidate list, and a download is invoked only after every earlier
\* candidate has succeeded or failed.
C10_ListingOrderKept ==
    /\ \A k, l \in 1..Len(summary.ProcessedFiles) :
          k < l => CandidateOfRecord(summary.ProcessedFiles[k])
                     < CandidateOfRecord(summary.ProcessedFiles[l])
    /\ \A k, l \in 1..Len(summary.Errors) :
          k < l => CandidateOfMessage(summary.Errors[k])
                     < CandidateOfMessage(summary.Errors[l])
    /\ \A k \in 1..Len(hist) :
          (hist[k][1] = "download" /\ hist[k][2] > 1) =>
             \E j \in 1..(k - 1) : IsTerminalEvent(hist[j], hist[k][2] - 1)
    /\ pc = "download" => summary.Successful + summary.Failed = idx - 1

C10_Witness ==
    /\ Finalized
    /\ Len(summary.ProcessedFiles) = 2
    /\ summary.ProcessedFiles[1].OriginalFile = iworkFiles[1].Name
    /\ summary.ProcessedFiles[2].OriginalFile = iworkFiles[2].Name

\* the listing has returned successfully
ListingDone == \E k \in 1..Len(hist) : hist[k] = <<"list", 0, "ok">>

\* position in the listing of the entry a candidate was made from
EntryOf(fi) == CHOOSE k \in 1..Len(entries) : entries[k].ID = fi.ID

\* no character of s is an upper-case letter
IsLowerCase(s) == \A i \in 1..Len(s) : \A j \in 1..26 : s[i] # UpperChars[j]

\* the last Len(x) characters of name, lowercased one by one, spell x
EndsWithIgnoringCase(name, x) ==
    /\ Len(x) <= Len(name)
    /\ \A p \in 1..Len(x) : LowerChar(name[Len(name) - Len(x) + p]) = x[p]

\* what the filter has selected from the listing
FilterSelection ==
    /\ \A k \in 1..Len(entries) :
          (\E i \in 1..Len(iworkFiles) : iworkFiles[i].ID = entries[k].ID)
             <=> /\ entries[k].Type = "file"
                 /\ \E x \in supportedExtensions :
                       EndsWithIgnoringCase(entries[k].Name, x)
    /\ \A i \in 1..Len(iworkFiles) :
          /\ \E k \in 1..Len(entries) : entries[k].ID = iworkFiles[i].ID
          /\ iworkFiles[i].Name = entries[EntryOf(iworkFiles[i])].Name
          /\ iworkFiles[i].Size = entries[EntryOf(iworkFiles[i])].Size
          /\ IsLowerCase(iworkFiles[i].Extension)
          /\ iworkFiles[i].Extension \in supportedExtensions
          /\ EndsWithIgnoringCase(iworkFiles[i].Name, iworkFiles[i].Extension)
    /\ \A i, j \in 1..Len(iworkFiles) :
          i < j => EntryOf(iworkFiles[i]) < EntryOf(iworkFiles[j])
    /\ summary.TotalFiles = Len(iworkFiles)

\* C11: when the listing returns successfully an entry is a candidate iff it
\* is a file whose extension, lowercased, is supported; candidates keep the
\* order of the entries and carry the entry's fields and the lowercased
\* extension; the listing and the candidates stay as they are from then on.
C11_FilterSelectsSupportedFiles ==
    /\ [][(~ListingDone /\ ListingDone') => FilterSelection']_vars
    /\ [][ListingDone =>
             /\ entries' = entries
             /\ iworkFiles' = iworkFiles
             /\ summary'.TotalFiles = summary.TotalFiles]_vars
    /\ [](~ListingDone => iworkFiles = <<>>)

C11_Witness ==
    /\ ListingDone
    /\ Len(entries) = 2
    /\ Len(iworkFiles) = 1
    /\ iworkFiles[1].Extension = <<".", "k", "e", "y">>
    /\ iworkFiles[1].Name = <<"a", ".", "K", "E", "Y">>

\* the failures recorded so far, in the order of their messages
IsFailureEvent(e) ==
    \/ e[1] = "download" /\ e[3] # "ok"
    \/ e[1] \in {"convert", "enrich"} /\ e[3] = "fail"
FailureEvents == SelectSeq(hist, IsFailureEvent)

\* the error text holds the status line of a rejected credential
NamesUnauthorized(err) == \E i \in 1..Len(err) : err[i] = "401 Unauthorized"

\* the event of the listing call (defined once the call was made)
ListingEvent == hist[CHOOSE k \in 1..Len(hist) : hist[k][1] = "list"]

InProgress(i) ==
    /\ \E k \in 1..Len(hist) : hist[k] = <<"download", i, "ok">>
    /\ ~\E k \in 1..Len(hist) : hist[k] = <<"convert", i, "fail">>
    /\ ~\E k \in 1..Len(hist) : hist[k][1] = "cleanup" /\ hist[k][2] = i

C14_StagesInOrder ==
    /\ \A k \in 1..Len(hist) :
          /\ hist[k][1] = "convert" =>
                \E j \in 1..(k - 1) : hist[j] = <<"download", hist[k][2], "ok">>
          /\ hist[k][1] = "enrich" =>
                \E j \in 1..(k - 1) : hist[j] = <<"convert", hist[k][2], "ok">>
          /\ IsFailureEvent(hist[k]) =>
                \A l \in (k + 1)..Len(hist) :
                   hist[l][2] = hist[k][2] => hist[l][1] = "cleanup"
    /\ \A i \in 1..Len(iworkFiles) :
          RecordsOf(i) > 0 => \E k \in 1..Len(hist) : hist[k] = <<"enrich", i, "ok">>

C14_Witness ==
    /\ Finalized
    /\ \E k \in 1..Len(hist) : hist[k] = <<"convert", 1, "fail">>
    /\ \E k \in 1..Len(hist) : hist[k] = <<"enrich", 2, "ok">>
    /\ RecordsOf(2) = 1

\* the step just taken is the call named op and it ended with a failure
FailedStep(op) ==
    /\ Len(hist') = Len(hist) + 1
    /\ hist'[Len(hist')][1] = op
    /\ hist'[Len(hist')][3] # "ok"

\* the step appends one message "<what><name>: <cause>" and counts one failure,
\* leaving the successes alone
RecordsOneFailure(what, name) ==
    LET pre == <<what>> \o name \o <<": ">> IN
    /\ Len(summary'.Errors) = Len(summary.Errors) + 1
    /\ SubSeq(summary'.Errors, 1, Len(summary.Errors)) = summary.Errors
    /\ HasPrefix(summary'.Errors[Len(summary'.Errors)], pre)
    /\ Len(summary'.Errors[Len(summary'.Errors)]) > Len(pre)
    /\ summary'.Failed = summary.Failed + 1
    /\ summary'.Successful = summary.Successful
    /\ summary'.ProcessedFiles = summary.ProcessedFiles

\* the step goes on to the next candidate, or to the end after the last one
GoesToNextCandidate ==
    /\ idx' = idx + 1
    /\ pc' = IF idx < Len(iworkFiles) THEN "download" ELSE "finalize"

\* C15: a failed download appends exactly one "Failed to download <name>:
\* <cause>" message, adds one to Failed, leaves Successful, ProcessedFiles and
\* the output files alone and goes on to the next candidate.
\* no conversion or enrichment was invoked for a candidate whose call op failed
NothingAfterFailed(op) ==
    \A k \in 1..Len(hist) :
       (hist[k][1] = op /\ hist[k][3] # "ok") =>
          \A l \in 1..Len(hist) :
             (l # k /\ hist[l][2] = hist[k][2]) => hist[l][1] \notin {"convert", "enrich"}

C15_DownloadFailureRecordedAndSkipped ==
    /\ []NothingAfterFailed("download")
    /\ [][(pc = "download" /\ FailedStep("download")) =>
             /\ RecordsOneFailure("Failed to download ", iworkFiles[idx].Name)
             /\ GoesToNextCandidate
             /\ outFiles' = outFiles]_vars

C15_Witness ==
    /\ pc = "download"
    /\ idx = 2
    /\ hist[Len(hist)][1] = "download"
    /\ hist[Len(hist)][3] = "request"
    /\ summary.Failed = 1

\* C16: a failed conversion appends a "Failed to convert <name>: <cause>"
\* message, adds one to Failed, removes the scratch file, appends no record
\* and goes on to the next candidate without enrichment.
C16_ConvertFailureCleansUp ==
    /\ []NothingAfterFailed("convert")
    /\ [][(pc = "convert" /\ FailedStep("convert")) =>
             /\ RecordsOneFailure("Failed to convert ", iworkFiles[idx].Name)
             /\ localPath \in scratch
             /\ localPath \notin scratch'
             /\ GoesToNextCandidate]_vars

C16_Witness ==
    /\ pc = "download"
    /\ idx = 2
    /\ hist[Len(hist)] = <<"convert", 1, "fail">>
    /\ scratch = {}
    /\ summary.Failed = 1
    /\ summary.ProcessedFiles = <<>>

\* the output path of candidate i, spelled out: directory, the name up to its
\* last dot, the suffix of the format
BaseOf(name) ==
    LET dots == {p \in 1..Len(name) : name[p] = "."}
    IN  IF dots = {} THEN name
        ELSE SubSeq(name, 1, (CHOOSE p \in dots : \A q \in dots : q <= p) - 1)
ExpectedOutputPath(name) ==
    <<DefaultOutputDir, "/">> \o BaseOf(name)
       \o <<IF format = "txt" THEN "_extracted.txt" ELSE "_converted.html">>

\* C17: a failed enrichment happens in text mode only; it appends a message
\* and counts a failure without a record, leaves the converted file in the
\* output directory, and the scratch file is removed by the step after it,
\* before the next candidate.
C17_EnrichFailureKeepsOutput ==
    /\ [](\A k \in 1..Len(hist) :
             hist[k] = <<"enrich", hist[k][2], "fail">> =>
                ExpectedOutputPath(iworkFiles[hist[k][2]].Name) \in DOMAIN outFiles)
    /\ [][(pc = "enrich" /\ FailedStep("enrich")) =>
             /\ format = "txt"
             /\ RecordsOneFailure("Failed to save enhanced file for ",
                                  iworkFiles[idx].Name)
             /\ outputPath \in DOMAIN outFiles'
             /\ pc' = "cleanup" /\ idx' = idx]_vars
    /\ [][(pc = "cleanup" /\ finalPath = <<>>) =>
             /\ localPath \in scratch
             /\ localPath \notin scratch'
             /\ outFiles' = outFiles
             /\ summary' = summary
             /\ GoesToNextCandidate]_vars

C17_Witness ==
    /\ pc = "download"
    /\ idx = 2
    /\ hist[Len(hist)] = <<"cleanup", 1, "ok">>
    /\ hist[Len(hist) - 1] = <<"enrich", 1, "fail">>
    /\ scratch = {}
    /\ ExpectedOutputPath(iworkFiles[1].Name) \in DOMAIN outFiles
    /\ summary.Failed = 1 /\ summary.ProcessedFiles = <<>>

\* number of calls named op made for candidate i
CallsOf(op, i) ==
    Cardinality({k \in 1..Len(hist) : hist[k][1] = op /\ hist[k][2] = i})

\* C18: no candidate is downloaded or converted more than once, and none is
\* downloaded or converted after it has failed.
C18_NoRetry ==
    /\ \A i \in 1..Len(iworkFiles) :
          /\ CallsOf("download", i) <= 1
          /\ CallsOf("convert", i) <= 1
          /\ CallsOf("enrich", i) <= 1
    /\ \A k \in 1..Len(hist) :
          IsFailureEvent(hist[k]) =>
             \A l \in (k + 1)..Len(hist) :
                hist[l][2] = hist[k][2] => hist[l][1] \notin {"download", "convert"}
    /\ \A k \in 1..Len(hist) : hist[k][1] = "download" => hist[k][2] <= Len(iworkFiles)

C18_Witness ==
    /\ Finalized
    /\ Len(iworkFiles) = 2
    /\ hist[2][1] = "download" /\ hist[2][2] = 1 /\ hist[2][3] # "ok"
    /\ CallsOf("download", 1) = 1
    /\ CallsOf("download", 2) = 1

\* C19: a record's output path is made of the output directory, the base name
\* and the suffix of the format only; records of candidates with the same base
\* name have the same path, both count as successes, and the file at that
\* path is the output of the later one.
C19_SameBaseSamePath ==
    LET recs == summary.ProcessedFiles IN
    /\ \A k \in 1..Len(recs) : recs[k].OutputPath = ExpectedOutputPath(recs[k].OriginalFile)
    /\ \A k, l \in 1..Len(recs) :
          (k < l /\ BaseOf(recs[k].OriginalFile) = BaseOf(recs[l].OriginalFile)) =>
             /\ recs[k].OutputPath = recs[l].OutputPath
             /\ summary.Successful >= 2
             /\ \A m \in 1..Len(summary.Errors) :
                   /\ ~ErrorNames(summary.Errors[m], recs[k].OriginalFile)
                   /\ ~ErrorNames(summary.Errors[m], recs[l].OriginalFile)
    /\ (pc = "cleanup" /\ finalPath = outputPath) =>
          /\ recs[Len(recs)].OutputPath = outputPath
          /\ IF format = "txt"
             THEN /\ LineOf(outFiles[outputPath], 1)
                        = <<"# Extracted from: ">> \o iworkFiles[idx].Name
                  /\ AfterLine(outFiles[outputPath], 9) = converted
             ELSE outFiles[outputPath] = converted

C19_Witness ==
    /\ pc = "cleanup" /\ finalPath = outputPath
    /\ format = "txt"
    /\ Len(summary.ProcessedFiles) = 2
    /\ summary.ProcessedFiles[1].OriginalFile # summary.ProcessedFiles[2].OriginalFile
    /\ summary.ProcessedFiles[1].OutputPath = summary.ProcessedFiles[2].OutputPath
    /\ LineOf(outFiles[outputPath], 1)
          = <<"# Extracted from: ">> \o summary.ProcessedFiles[2].OriginalFile

\* C20: at most one report is written, only after ProcessFolder has returned
\* with every candidate counted; it holds the summary as it is, and the
\* summary does not change once the report step is reached, whether the
\* write succeeds or not.
C20_ReportOnceAfterLoop ==
    /\ [](/\ Len(reports) <= 1
          /\ reports # <<>> =>
                /\ pc = "done"
                /\ Finalized
                /\ reports[1].Data = summary
                /\ summary.Successful + summary.Failed = Len(iworkFiles)
                /\ \A i \in 1..Len(iworkFiles) : ~InProgress(i))
    /\ [][(pc \in {"report", "done"}) => (summary' = summary)]_vars
    /\ [][(reports # <<>>) => (reports' = reports)]_vars

C20_Witness ==
    /\ pc = "done"
    /\ Len(reports) = 1
    /\ Len(iworkFiles) = 2
    /\ summary.Failed = 2
    /\ summary.Successful = 0

\* C21: whenever ProcessFolder has returned without error, the summary's
\* EndTime is not earlier than its StartTime and its Duration is EndTime
\* minus StartTime, also when the listing had no candidates.
C21_EndTimeSetOnReturn ==
    Finalized =>
       /\ summary.EndTime >= summary.StartTime
       /\ summary.Duration = summary.EndTime - summary.StartTime

\* the candidates that have reached success or failure so far
TerminalCandidates ==
    {i \in 1..Len(iworkFiles) :
        \E k \in 1..Len(hist) : IsTerminalEvent(hist[k], i)}

\* C22: in every state from the listing on, Successful + Failed is the number
\* of candidates that have reached success or failure and is at most
\* TotalFiles; no step decreases Successful or Failed, and no step changes
\* TotalFiles once the listing has set it.
C22_CountsGrowWithOutcomes ==
    /\ [](ListingDone =>
            /\ summary.Successful + summary.Failed = Cardinality(TerminalCandidates)
            /\ summary.Successful + summary.Failed <= summary.TotalFiles
            /\ summary.TotalFiles = Len(iworkFiles))
    /\ [][ListingDone =>
             /\ summary'.Successful >= summary.Successful
             /\ summary'.Failed >= summary.Failed
             /\ summary'.Successful + summary'.Failed
                   <= summary.Successful + summary.Failed + 1
             /\ summary'.TotalFiles = summary.TotalFiles]_vars

C22_Witness ==
    /\ pc = "convert"
    /\ idx = 2
    /\ Len(iworkFiles) = 2
    /\ summary.TotalFiles = 2
    /\ summary.Failed = 1
    /\ summary.Successful = 0
    /\ TerminalCandidates = {1}
====
